---------------------------- MODULE Spec2Model ----------------------------
(***************************************************************************)
(* LifeLinkNepal: the donor notification cascade.                          *)
(*                                                                         *)
(* The state is the content of the tables the cascade reads and writes     *)
(* (BloodRequest, DonorNotification, DonorProfile, DonationHistory,        *)
(* DonorResponse), the Celery tasks still in flight (notify_first_donor    *)
(* queued by the post_save signal, check_donor_response scheduled with a   *)
(* 30 minute countdown) and the escalations mailed to the admins.          *)
(* Row ids are positions: notifications[n] is the DonorNotification with   *)
(* id n, requests[r] the BloodRequest with id r.  What a handler answers   *)
(* (the message it flashes, the string a task returns) is an operator of   *)
(* the state it starts in and of its inputs; the handler's effect is       *)
(* guarded by that answer.                                                 *)
(***************************************************************************)
EXTENDS Integers, Sequences, FiniteSets, TLC

VARIABLES requests, notifications, donors, donation_history, donor_responses,
          alerts, first_tasks, timers, admin_escalated,
          call,     \* the call of a pure function under evaluation, if any
          procs     \* handlers that have read their row and not yet written

dbVars == <<requests, notifications, donors, donation_history, donor_responses>>
vars == <<requests, notifications, donors, donation_history, donor_responses,
          alerts, first_tasks, timers, admin_escalated, call, procs>>

----------------------------------------------------------------------------
(* Bounds of the model *)

NumDonors == 2
MaxRequests == 2
MaxNotifications == 2
MaxPriority == 1

(* Program constants *)

POINTS_PER_DONATION == 50
BROADCAST_RADIUS_KM == 50

----------------------------------------------------------------------------
(* Values *)

Donors == 1..NumDonors
NULL == << >>
Some(x) == <<x>>

RequestIds == 1..Len(requests)
NotificationIds == 1..Len(notifications)

(* algorithms/blood_compatibility.py *)
BloodTypes == {"O-", "O+", "A-", "A+", "B-", "B+", "AB-", "AB+"}

(* A table in which O+ also gives to the Rh-negative types *)
COMPATIBILITY_RhIgnored ==
    [d \in BloodTypes |->
        CASE d \in {"O-", "O+"}   -> {"O-", "O+", "A-", "A+", "B-", "B+", "AB-", "AB+"}
          [] d = "A-"  -> {"A-", "A+", "AB-", "AB+"}
          [] d = "A+"  -> {"A+", "AB+"}
          [] d = "B-"  -> {"B-", "B+", "AB-", "AB+"}
          [] d = "B+"  -> {"B+", "AB+"}
          [] d = "AB-" -> {"AB-", "AB+"}
          [] d = "AB+" -> {"AB+"}]

COMPATIBILITY ==
    [d \in BloodTypes |->
        CASE d = "O-"  -> {"O-", "O+", "A-", "A+", "B-", "B+", "AB-", "AB+"}
          [] d = "O+"  -> {"O+", "A+", "B+", "AB+"}
          [] d = "A-"  -> {"A-", "A+", "AB-", "AB+"}
          [] d = "A+"  -> {"A+", "AB+"}
          [] d = "B-"  -> {"B-", "B+", "AB-", "AB+"}
          [] d = "B+"  -> {"B+", "AB+"}
          [] d = "AB-" -> {"AB-", "AB+"}
          [] d = "AB+" -> {"AB+"}]

is_compatible(donor_blood_type, recipient_blood_type) ==
    IF donor_blood_type \notin DOMAIN COMPATIBILITY
    THEN FALSE
    ELSE recipient_blood_type \in COMPATIBILITY[donor_blood_type]

get_compatible_donors(recipient_blood_type) ==
    {d \in DOMAIN COMPATIBILITY : recipient_blood_type \in COMPATIBILITY[d]}

(* COMPATIBILITY.get(donor_blood_type, []) *)
get_compatible_recipients(donor_blood_type) ==
    IF donor_blood_type \in DOMAIN COMPATIBILITY
    THEN COMPATIBILITY[donor_blood_type]
    ELSE {}

(* The donor profiles the matching reads and never writes: blood type and  *)
(* the haversine distance to the hospital (NULL: no stored latitude or     *)
(* longitude).  Odd donors are O- at 10 km, even donors A+ without a       *)
(* stored location.                                                        *)
DonorBloodType(d) == IF d % 2 = 1 THEN "O-" ELSE "A+"
DonorDistanceKm(d) == IF d % 2 = 1 THEN Some(10) ELSE NULL

(* Blood types a hospital can post in the request form ("": left empty). *)
FormBloodTypes == {"", "A+"}

----------------------------------------------------------------------------
(* Queries on the DonorNotification table *)

OfRequest(r) == {n \in NotificationIds : notifications[n].blood_request = r}

WithStatus(r, s) == {n \in OfRequest(r) : notifications[n].status = s}

(* blood_request.donor_notifications.filter(status='pending',              *)
(*     is_notified=False).order_by('priority_order').first()               *)
(* Rows that tie on priority_order come back in an order the database      *)
(* chooses, so first() is any of the rows with the least priority_order.   *)
PendingQueue(r) ==
    {n \in WithStatus(r, "pending") : ~notifications[n].is_notified}

(* A first() that sorted the other way round *)
LastPending(r) ==
    {n \in PendingQueue(r) :
        \A m \in PendingQueue(r) :
            notifications[n].priority_order >= notifications[m].priority_order}

FirstPending(r) ==
    {n \in PendingQueue(r) :
        \A m \in PendingQueue(r) :
            notifications[n].priority_order <= notifications[m].priority_order}

(* send_donor_email / send_donor_notification format                       *)
(* f"{notification.distance:.2f}" and int(notification.match_score * 100)  *)
(* before anything is sent: a NULL distance or match_score raises          *)
(* TypeError.                                                              *)
EmailRaises(n) ==
    notifications[n].distance = NULL \/ notifications[n].match_score = NULL

NewNotification(d, r, st, isn, prio, dist, score, nat) ==
    [donor |-> d, blood_request |-> r, status |-> st, is_notified |-> isn,
     priority_order |-> prio, distance |-> dist, match_score |-> score,
     notified_at |-> nat, responded |-> FALSE, responded_at |-> "null",
     response_notes |-> ""]

Activated(rec) ==
    [rec EXCEPT !.status = "notified", !.is_notified = TRUE, !.notified_at = "now"]

HistoryCount(d) ==
    LET RECURSIVE Sum(_)
        Sum(S) == IF S = {} THEN 0
                  ELSE LET r == CHOOSE x \in S : TRUE
                       IN donation_history[<<d, r>>] + Sum(S \ {r})
    IN Sum(1..MaxRequests)

----------------------------------------------------------------------------
(* No pure function is under evaluation *)
NoCall == [fn |-> "none"]

Init ==
    /\ requests = << >>
    /\ notifications = << >>
    /\ donors = [d \in Donors |->
                    [points |-> 0, donation_count |-> 0,
                     last_donation_date |-> "null", is_available |-> TRUE]]
    /\ donation_history = [p \in Donors \X (1..MaxRequests) |-> 0]
    /\ donor_responses = {}
    /\ alerts = {}
    /\ first_tasks = {}
    /\ timers = {}
    /\ admin_escalated = {}
    /\ call = NoCall
    /\ procs = {}

----------------------------------------------------------------------------
(* hospitals/views.py create_blood_request, with the post_save signal of   *)
(* hospitals/signals.py that BloodRequest.objects.create fires.  The       *)
(* donors it alerts get rows of the Notification table (alerts), not       *)
(* DonorNotification candidates.                                           *)

HospitalLocated == TRUE

CompatibleDonors(bt) ==
    {d \in Donors : DonorBloodType(d) \in get_compatible_donors(bt)
                    /\ donors[d].is_available}

NearbyDonors(bt) ==
    IF HospitalLocated
    THEN {d \in CompatibleDonors(bt) :
            /\ DonorDistanceKm(d) # NULL
            /\ DonorDistanceKm(d)[1] <= BROADCAST_RADIUS_KM}
    ELSE CompatibleDonors(bt)

CreateOutcome(method, bt) ==
    IF method # "POST" THEN "render_form"
    ELSE IF bt = "" THEN "missing_fields"
    ELSE IF CompatibleDonors(bt) = {} THEN "created_no_compatible_donors"
    ELSE IF NearbyDonors(bt) = {} THEN "created_no_donors_within_50km"
    ELSE "created_donors_alerted"

auto_notify_first_donor(r, created, status) ==
    IF created /\ status = "pending" THEN first_tasks \cup {r} ELSE first_tasks

(* int(request.POST.get('units_needed', 1)): the field as posted is NULL    *)
(* when the form did not carry it, else the string typed.  The result is   *)
(* NULL when int() raises ValueError, which happens before the try block.  *)
PostedUnits == {NULL, Some("-1"), Some("0"), Some("1"), Some("3"), Some("abc")}

int(string) ==
    CASE string = "-1" -> Some(-1)
      [] string = "0" -> Some(0)
      [] string = "1" -> Some(1)
      [] string = "3" -> Some(3)
      [] OTHER -> NULL

ParsedUnits(posted) == IF posted = NULL THEN Some(1) ELSE int(posted[1])

create_blood_request(method, bt, posted_units) ==
    /\ Len(requests) < MaxRequests
    /\ LET r == Len(requests) + 1 IN
       IF \/ method = "POST" /\ ParsedUnits(posted_units) = NULL
          \/ CreateOutcome(method, bt) \in {"render_form", "missing_fields"}
       THEN UNCHANGED vars
       ELSE /\ requests' = Append(requests,
                    [status |-> "pending", blood_type |-> bt,
                     units_needed |-> ParsedUnits(posted_units)[1]])
            /\ first_tasks' = auto_notify_first_donor(r, TRUE, "pending")
            /\ alerts' = alerts \cup {<<d, r>> : d \in NearbyDonors(bt)}
            /\ UNCHANGED <<notifications, donors, donation_history,
                           donor_responses, timers, admin_escalated, call, procs>>

(* The form posted for one unit *)
CreateBloodRequest(method, bt) == create_blood_request(method, bt, Some("1"))

(* hospitals/views.py mark_fulfilled and cancel_request *)
MarkFulfilled(r) ==
    /\ r \in RequestIds
    /\ requests' = [requests EXCEPT ![r].status = "fulfilled"]
    /\ UNCHANGED <<notifications, donors, donation_history, donor_responses,
                   alerts, call, procs, first_tasks, timers, admin_escalated>>

CancelRequest(r) ==
    /\ r \in RequestIds
    /\ requests' = [requests EXCEPT ![r].status = "cancelled"]
    /\ UNCHANGED <<notifications, donors, donation_history, donor_responses,
                   alerts, call, procs, first_tasks, timers, admin_escalated>>

----------------------------------------------------------------------------
(* The places that create DonorNotification rows *)

(* donors/utils.py send_notification: one row per donor of the list, with  *)
(* the model's defaults (status 'pending', priority_order 0).              *)
DonorLists ==
    {s \in UNION {[1..k -> Donors] : k \in 1..NumDonors} :
        \A i, j \in DOMAIN s : i # j => s[i] # s[j]}

DefaultRows(ds, r) ==
    [i \in 1..Len(ds) |->
        NewNotification(ds[i], r, "pending", FALSE, 0, NULL, NULL, "null")]

SendNotification(ds, r) ==
    /\ r \in RequestIds
    /\ Len(notifications) + Len(ds) <= MaxNotifications
    /\ notifications' = notifications \o DefaultRows(ds, r)
    /\ UNCHANGED <<requests, donors, donation_history, donor_responses,
                   alerts, call, procs, first_tasks, timers, admin_escalated>>

(* hospitals/utils.py send_blood_request_notification *)
SendBloodRequestNotification(d, r) ==
    /\ r \in RequestIds
    /\ Len(notifications) < MaxNotifications
    /\ notifications' = Append(notifications,
            NewNotification(d, r, "pending", FALSE, 0, NULL, NULL, "null"))
    /\ UNCHANGED <<requests, donors, donation_history, donor_responses,
                   alerts, call, procs, first_tasks, timers, admin_escalated>>

(* donors/admin.py DonorNotificationAdmin: the add form of the admin site, *)
(* saved with the status and is_notified it opens with and the             *)
(* priority_order, distance and match_score the admin types in.            *)
AdminAddNotification(d, r, prio, dist, score) ==
    /\ r \in RequestIds
    /\ Len(notifications) < MaxNotifications
    /\ notifications' = Append(notifications,
            NewNotification(d, r, "pending", FALSE, prio, dist, score, "null"))
    /\ UNCHANGED <<requests, donors, donation_history, donor_responses,
                   alerts, call, procs, first_tasks, timers, admin_escalated>>

(* donors/views.py notify_donor: get_or_create on (donor, blood_request),  *)
(* which raises MultipleObjectsReturned when two rows match.               *)
ExistingFor(d, r) == {n \in OfRequest(r) : notifications[n].donor = d}

NotifyDonorOutcome(method, d, r) ==
    IF method # "POST" THEN "render_form"
    ELSE IF Cardinality(ExistingFor(d, r)) > 1 THEN "server_error"
    ELSE IF Cardinality(ExistingFor(d, r)) = 1 THEN "already_notified"
    ELSE "donor_notified"

NotifyDonor(method, d, r) ==
    /\ r \in RequestIds
    /\ IF NotifyDonorOutcome(method, d, r) # "donor_notified"
       THEN UNCHANGED vars
       ELSE /\ Len(notifications) < MaxNotifications
            /\ notifications' = Append(notifications,
                    NewNotification(d, r, "notified", TRUE, 0, NULL, NULL, "now"))
            /\ UNCHANGED <<requests, donors, donation_history, donor_responses,
                           alerts, call, procs, first_tasks, timers, admin_escalated>>

----------------------------------------------------------------------------
(* donors/tasks.py *)

(* What notify_first_donor returns; n is the row first() gave, if any. *)
NotifyFirstOutcome(r, n) ==
    IF WithStatus(r, "accepted") # {} THEN "already_accepted"
    ELSE IF FirstPending(r) = {} THEN "no_donors_available"
    ELSE IF EmailRaises(n) THEN "error"
    ELSE "notified"

(* notify_first_donor, run by a Celery worker some time after the signal   *)
(* queued it.  The row is saved as notified before the email is built, so  *)
(* an email that raises leaves it notified with no timeout scheduled.      *)
NotifyFirstDonor(r) ==
    /\ r \in first_tasks
    /\ first_tasks' = first_tasks \ {r}
    /\ IF WithStatus(r, "accepted") # {} \/ FirstPending(r) = {}
       THEN UNCHANGED <<dbVars, alerts, call, procs, timers, admin_escalated>>
       ELSE \E n \in FirstPending(r) :
            /\ notifications' = [notifications EXCEPT ![n] = Activated(@)]
            /\ timers' = IF NotifyFirstOutcome(r, n) = "notified"
                         THEN timers \cup {n} ELSE timers
            /\ UNCHANGED <<requests, donors, donation_history, donor_responses,
                           alerts, call, procs, admin_escalated>>

(* A timeout that put the candidate back in the queue *)
TimedOutRequeued(rec) ==
    [rec EXCEPT !.status = "pending", !.response_notes = "timed_out"]

TimedOut(rec) ==
    [rec EXCEPT !.status = "cancelled", !.response_notes = "timed_out"]

(* What check_donor_response returns; m is the next row first() gave. *)
CheckResponseOutcome(n, m) ==
    IF notifications[n].status \in {"accepted", "rejected"} THEN "already_responded"
    ELSE IF notifications[n].status # "notified" THEN "status_report"
    ELSE IF FirstPending(notifications[n].blood_request) = {} THEN "no_more_donors"
    ELSE IF EmailRaises(m) THEN "error"
    ELSE "timeout_next_notified"

(* "if notification.status == 'notified':" *)
StillNotifiedOrRejected(n) == notifications[n].status \in {"notified", "rejected"}

StillNotified(n) == notifications[n].status = "notified"

(* notify_admin_no_donors: the escalation mailed to the admins *)
EscalateNothing(r) == admin_escalated

notify_admin_no_donors(r) == admin_escalated \cup {r}

(* check_donor_response, run when the 30 minute countdown of the           *)
(* notification ends.                                                      *)
CheckDonorResponse(n) ==
    /\ n \in timers
    /\ LET r == notifications[n].blood_request IN
       IF ~StillNotified(n)
       THEN /\ timers' = timers \ {n}
            /\ UNCHANGED <<dbVars, alerts, call, procs, first_tasks, admin_escalated>>
       ELSE IF FirstPending(r) # {}
       THEN \E m \in FirstPending(r) :
            /\ notifications' = [notifications EXCEPT
                                    ![n] = TimedOut(@), ![m] = Activated(@)]
            /\ timers' = IF CheckResponseOutcome(n, m) = "timeout_next_notified"
                         THEN (timers \ {n}) \cup {m} ELSE timers \ {n}
            /\ UNCHANGED <<requests, donors, donation_history,
                           donor_responses, alerts, call, procs, first_tasks, admin_escalated>>
       ELSE /\ notifications' = [notifications EXCEPT ![n] = TimedOut(@)]
            /\ timers' = timers \ {n}
            /\ admin_escalated' = notify_admin_no_donors(r)
            /\ UNCHANGED <<requests, donors, donation_history,
                           donor_responses, alerts, call, procs, first_tasks>>

----------------------------------------------------------------------------
(* donors/views.py: the donor's responses.  u is the donor logged in.      *)

NotActiveMessage(status) ==
    CASE status = "accepted"  -> "already_accepted"
      [] status = "rejected"  -> "already_rejected"
      [] status = "cancelled" -> "cancelled_or_fulfilled_by_another"
      [] OTHER                -> "no_longer_active"

(* A response handler without the "status != 'notified'" check *)
ResponseOutcomeUnchecked(u, method, n, done) ==
    IF notifications[n].donor # u THEN "permission_denied"
    ELSE IF method # "POST" THEN "confirm_page"
    ELSE done

ResponseOutcome(u, method, n, done) ==
    IF notifications[n].donor # u THEN "permission_denied"
    ELSE IF notifications[n].status # "notified"
         THEN NotActiveMessage(notifications[n].status)
    ELSE IF method # "POST" THEN "confirm_page"
    ELSE done

(* A donation that awarded the points twice *)
DonorAfterDonationTwice(d, history) ==
    [donors[d] EXCEPT !.donation_count = history,
                      !.last_donation_date = "today",
                      !.points = @ + 2 * POINTS_PER_DONATION]

DonorAfterDonation(d, history) ==
    [donors[d] EXCEPT !.donation_count = history,
                      !.last_donation_date = "today",
                      !.points = @ + POINTS_PER_DONATION]

Accepted(rec) ==
    [rec EXCEPT !.status = "accepted", !.responded_at = "now",
                !.response_notes = "", !.responded = TRUE]

(* An acceptance that left the other candidates of the request alone *)
KeepSiblings(n, r) == [notifications EXCEPT ![n] = Accepted(@)]

CancelSiblings(n, r) ==
    [m \in NotificationIds |->
        IF m = n
        THEN Accepted(notifications[m])
        ELSE IF /\ notifications[m].blood_request = r
                /\ notifications[m].status \in {"pending", "notified"}
        THEN [notifications[m] EXCEPT !.status = "cancelled"]
        ELSE notifications[m]]

AcceptBloodRequest(u, method, n) ==
    /\ n \in NotificationIds
    /\ LET d == notifications[n].donor
           r == notifications[n].blood_request IN
       IF ResponseOutcome(u, method, n, "accepted") # "accepted"
       THEN UNCHANGED vars
       ELSE /\ notifications' = CancelSiblings(n, r)
            /\ requests' = [requests EXCEPT ![r].status = "fulfilled"]
            /\ donation_history' = [donation_history EXCEPT ![<<d, r>>] = @ + 1]
            /\ donors' = [donors EXCEPT ![d] = DonorAfterDonation(d, HistoryCount(d) + 1)]
            /\ donor_responses' = donor_responses \cup
                    {[donor |-> d, blood_request |-> r, status |-> "accepted"]}
            /\ UNCHANGED <<alerts, call, procs, first_tasks, timers, admin_escalated>>

Rejected(rec) ==
    [rec EXCEPT !.status = "rejected", !.responded_at = "now",
                !.response_notes = "Not specified", !.responded = TRUE]

(* A rejection that went on to activate the next pending candidate *)
AfterRejectAdvancing(n, r) ==
    IF FirstPending(r) = {}
    THEN [notifications EXCEPT ![n] = Rejected(@)]
    ELSE LET m == CHOOSE k \in FirstPending(r) : TRUE
         IN [notifications EXCEPT ![n] = Rejected(@), ![m] = Activated(@)]

AfterReject(n, r) == [notifications EXCEPT ![n] = Rejected(@)]

RejectBloodRequest(u, method, n) ==
    /\ n \in NotificationIds
    /\ LET d == notifications[n].donor
           r == notifications[n].blood_request IN
       IF ResponseOutcome(u, method, n, "declined") # "declined"
       THEN UNCHANGED vars
       ELSE /\ notifications' = AfterReject(n, r)
            /\ donor_responses' = donor_responses \cup
                    {[donor |-> d, blood_request |-> r, status |-> "declined"]}
            /\ UNCHANGED <<requests, donors, donation_history, alerts, call, procs,
                           first_tasks, timers, admin_escalated>>

FulfillOutcome(u, method, n) ==
    IF notifications[n].donor # u THEN "access_denied"
    ELSE IF notifications[n].status # "accepted" THEN "only_accepted_can_be_donated"
    ELSE IF method # "POST" THEN "redirect"
    ELSE "donation_confirmed"

(* A fulfilment that never finds the record the acceptance created *)
NeverLogged(d, r) == FALSE

already_logged(d, r) == donation_history[<<d, r>>] > 0

FulfillBloodRequest(u, method, n) ==
    /\ n \in NotificationIds
    /\ LET d == notifications[n].donor
           r == notifications[n].blood_request IN
       IF FulfillOutcome(u, method, n) # "donation_confirmed"
       THEN UNCHANGED vars
       ELSE /\ notifications' = [notifications EXCEPT
                                   ![n].status = "fulfilled", ![n].responded_at = "now"]
            /\ requests' = [requests EXCEPT ![r].status = "fulfilled"]
            /\ IF already_logged(d, r)
               THEN UNCHANGED <<donation_history, donors>>
               ELSE /\ donation_history' = [donation_history EXCEPT ![<<d, r>>] = @ + 1]
                    /\ donors' = [donors EXCEPT
                                    ![d] = DonorAfterDonation(d, HistoryCount(d) + 1)]
            /\ UNCHANGED <<donor_responses, alerts, call, procs, first_tasks, timers, admin_escalated>>

----------------------------------------------------------------------------
(* The admin site *)

NotifyNextOutcome(r, n) ==
    IF WithStatus(r, "accepted") # {} THEN "already_accepted"
    ELSE IF \E m \in WithStatus(r, "notified") : notifications[m].is_notified
         THEN "donor_is_reviewing_please_wait"
    ELSE IF FirstPending(r) = {} THEN "no_more_donors"
    ELSE IF EmailRaises(n) THEN "server_error"
    ELSE "notification_sent"

(* hospitals/admin.py BloodRequestAdmin.notify_next_donor_view: the row is *)
(* saved before send_donor_notification builds its message, and no timeout *)
(* check is scheduled.                                                     *)
NotifyNextDonorView(r) ==
    /\ r \in RequestIds
    /\ \/ /\ \A n \in NotificationIds :
                NotifyNextOutcome(r, n) \in
                    {"already_accepted", "donor_is_reviewing_please_wait", "no_more_donors"}
          /\ UNCHANGED vars
       \/ \E n \in FirstPending(r) :
            /\ NotifyNextOutcome(r, n) \in {"server_error", "notification_sent"}
            /\ notifications' = [notifications EXCEPT ![n] = Activated(@)]
            /\ UNCHANGED <<requests, donors, donation_history, donor_responses,
                           alerts, call, procs, first_tasks, timers, admin_escalated>>

(* donors/admin.py DonorNotificationAdmin.notify_selected_donors *)
NotifySelectedDonors(queryset) ==
    /\ queryset # {}
    /\ notifications' = [n \in NotificationIds |->
            IF n \in queryset /\ notifications[n].status = "pending"
            THEN Activated(notifications[n])
            ELSE notifications[n]]
    /\ UNCHANGED <<requests, donors, donation_history, donor_responses,
                   alerts, call, procs, first_tasks, timers, admin_escalated>>

----------------------------------------------------------------------------
Methods == {"GET", "POST"}

Next ==
    \/ \E method \in Methods, bt \in FormBloodTypes : CreateBloodRequest(method, bt)
    \/ \E r \in RequestIds : MarkFulfilled(r)
    \/ \E r \in RequestIds : CancelRequest(r)
    \/ \E ds \in DonorLists, r \in RequestIds : SendNotification(ds, r)
    \/ \E d \in Donors, r \in RequestIds : SendBloodRequestNotification(d, r)
    \/ \E d \in Donors, r \in RequestIds, prio \in 1..MaxPriority :
            AdminAddNotification(d, r, prio, Some(5), Some(1))
    \/ \E method \in Methods, d \in Donors, r \in RequestIds : NotifyDonor(method, d, r)
    \/ \E r \in first_tasks : NotifyFirstDonor(r)
    \/ \E n \in timers : CheckDonorResponse(n)
    \/ \E u \in Donors, method \in Methods, n \in NotificationIds :
            AcceptBloodRequest(u, method, n)
    \/ \E u \in Donors, method \in Methods, n \in NotificationIds :
            RejectBloodRequest(u, method, n)
    \/ \E u \in Donors, method \in Methods, n \in NotificationIds :
            FulfillBloodRequest(u, method, n)
    \/ \E r \in RequestIds : NotifyNextDonorView(r)
    \/ \E queryset \in SUBSET NotificationIds : NotifySelectedDonors(queryset)

Spec == Init /\ [][Next]_vars

----------------------------------------------------------------------------
(* The responses alone: a queue of candidates as the cascade can have left *)
(* it before anybody accepted, and then only accept_blood_request and      *)
(* fulfill_blood_request calls.                                            *)

QueueStatuses == {"pending", "notified", "rejected", "cancelled"}

QueueRow(d, r, st) ==
    LET row == NewNotification(d, r, "pending", FALSE, 1, Some(5), Some(1), "null")
    IN CASE st = "pending"   -> row
         [] st = "notified"  -> Activated(row)
         [] st = "rejected"  -> Rejected(Activated(row))
         [] st = "cancelled" -> TimedOut(Activated(row))

QueueRows ==
    {QueueRow(d, r, st) : d \in Donors, r \in 1..MaxRequests, st \in QueueStatuses}

InitAF ==
    /\ requests = [r \in 1..MaxRequests |->
                        [status |-> "pending", blood_type |-> "A+", units_needed |-> 1]]
    /\ notifications \in [1..MaxNotifications -> QueueRows]
    /\ donors = [d \in Donors |->
                    [points |-> 0, donation_count |-> 0,
                     last_donation_date |-> "null", is_available |-> TRUE]]
    /\ donation_history = [p \in Donors \X (1..MaxRequests) |-> 0]
    /\ donor_responses =
            {[donor |-> notifications[n].donor,
              blood_request |-> notifications[n].blood_request,
              status |-> "declined"] :
                n \in {k \in 1..MaxNotifications : notifications[k].status = "rejected"}}
    /\ alerts = {}
    /\ first_tasks = {}
    /\ timers = {}
    /\ admin_escalated = {}
    /\ call = NoCall
    /\ procs = {}

NextAF ==
    \/ \E u \in Donors, method \in Methods, n \in NotificationIds :
            AcceptBloodRequest(u, method, n)
    \/ \E u \in Donors, method \in Methods, n \in NotificationIds :
            FulfillBloodRequest(u, method, n)

SpecAF == InitAF /\ [][NextAF]_vars

----------------------------------------------------------------------------
(* The request form alone: what a hospital can post, valid or not, and     *)
(* what becomes of the requests created.  "XX" stands for any string that  *)
(* is not one of BLOOD_TYPE_CHOICES.                                       *)

PostedBloodTypes == FormBloodTypes \cup {"XX"}

InitCreate == Init

NextCreate ==
    \/ \E method \in Methods, bt \in PostedBloodTypes, posted_units \in PostedUnits :
            create_blood_request(method, bt, posted_units)
    \/ \E r \in first_tasks : NotifyFirstDonor(r)
    \/ \E r \in RequestIds : MarkFulfilled(r)
    \/ \E r \in RequestIds : CancelRequest(r)

SpecCreate == InitCreate /\ [][NextCreate]_vars

----------------------------------------------------------------------------
(* The handlers that answer a notified candidate, run by workers that can  *)
(* overlap.  No view or task of the repository opens a transaction or      *)
(* locks a row, and every save() commits by itself, so another worker can  *)
(* run between the moment a handler has read its rows and passed its       *)
(* checks and the moment it writes.  procs holds, for each worker in       *)
(* between, the handler it runs and the rows it holds in memory:           *)
(* Model.save() writes every field of the row as the handler holds it.     *)
(* The writes of one handler are taken as one step.                        *)

MaxWorkers == 2

Workers == 1..MaxWorkers

Idle(w) == \A p \in procs : p.worker # w

Running(w, op) == {p \in procs : p.worker = w /\ p.op = op}

(* get_object_or_404(DonorNotification, id=notification_id), the           *)
(* notification.donor loaded by the permission check, and both checks      *)
(* passed.                                                                 *)
ReadForResponse(w, op, n) ==
    [worker |-> w, op |-> op, n |-> n, row |-> notifications[n],
     donor |-> donors[notifications[n].donor]]

BeginAccept(w, u, n) ==
    /\ Idle(w)
    /\ n \in NotificationIds
    /\ IF ResponseOutcome(u, "POST", n, "accepted") # "accepted"
       THEN UNCHANGED vars
       ELSE /\ procs' = procs \cup {ReadForResponse(w, "accept", n)}
            /\ UNCHANGED <<dbVars, alerts, call, first_tasks, timers, admin_escalated>>

(* The rows an acceptance leaves: its own row saved as it holds it, then   *)
(* the filter(...).exclude(id=notification_id).update(status='cancelled')  *)
(* on the rows as they are now.                                            *)
AcceptWrites(p) ==
    [m \in NotificationIds |->
        IF m = p.n
        THEN Accepted(p.row)
        ELSE IF /\ notifications[m].blood_request = p.row.blood_request
                /\ notifications[m].status \in {"pending", "notified"}
        THEN [notifications[m] EXCEPT !.status = "cancelled"]
        ELSE notifications[m]]

(* donor.donation_count = donor.donation_history.count() is counted now;   *)
(* donor.points and the other fields are those the handler read.           *)
DonorSaved(p, history) ==
    [p.donor EXCEPT !.donation_count = history,
                    !.last_donation_date = "today",
                    !.points = @ + POINTS_PER_DONATION]

FinishAccept(w) ==
    \E p \in Running(w, "accept") :
        LET d == p.row.donor
            r == p.row.blood_request IN
        /\ notifications' = AcceptWrites(p)
        /\ requests' = [requests EXCEPT ![r].status = "fulfilled"]
        /\ donation_history' = [donation_history EXCEPT ![<<d, r>>] = @ + 1]
        /\ donors' = [donors EXCEPT ![d] = DonorSaved(p, HistoryCount(d) + 1)]
        /\ donor_responses' = donor_responses \cup
                {[donor |-> d, blood_request |-> r, status |-> "accepted"]}
        /\ procs' = procs \ {p}
        /\ UNCHANGED <<alerts, call, first_tasks, timers, admin_escalated>>

BeginReject(w, u, n) ==
    /\ Idle(w)
    /\ n \in NotificationIds
    /\ IF ResponseOutcome(u, "POST", n, "declined") # "declined"
       THEN UNCHANGED vars
       ELSE /\ procs' = procs \cup {ReadForResponse(w, "reject", n)}
            /\ UNCHANGED <<dbVars, alerts, call, first_tasks, timers, admin_escalated>>

FinishReject(w) ==
    \E p \in Running(w, "reject") :
        /\ notifications' = [notifications EXCEPT ![p.n] = Rejected(p.row)]
        /\ donor_responses' = donor_responses \cup
                {[donor |-> p.row.donor, blood_request |-> p.row.blood_request,
                  status |-> "declined"]}
        /\ procs' = procs \ {p}
        /\ UNCHANGED <<requests, donors, donation_history, alerts, call,
                       first_tasks, timers, admin_escalated>>

(* check_donor_response up to "if notification.status == 'notified':" *)
BeginCheck(w, n) ==
    /\ Idle(w)
    /\ n \in timers
    /\ timers' = timers \ {n}
    /\ procs' = IF StillNotified(n)
                THEN procs \cup {[worker |-> w, op |-> "check", n |-> n,
                                  row |-> notifications[n],
                                  donor |-> donors[notifications[n].donor]]}
                ELSE procs
    /\ UNCHANGED <<dbVars, alerts, call, first_tasks, admin_escalated>>

(* ... and from there on: the row saved 'cancelled' as the task holds it,  *)
(* then the next pending row as the table has it now.                      *)
FinishCheck(w) ==
    \E p \in Running(w, "check") :
        LET r == p.row.blood_request IN
        /\ procs' = procs \ {p}
        /\ IF FirstPending(r) \ {p.n} # {}
           THEN \E m \in FirstPending(r) \ {p.n} :
                /\ notifications' = [notifications EXCEPT
                                        ![p.n] = TimedOut(p.row), ![m] = Activated(@)]
                /\ timers' = IF EmailRaises(m) THEN timers ELSE timers \cup {m}
                /\ UNCHANGED <<requests, donors, donation_history, donor_responses,
                               alerts, call, first_tasks, admin_escalated>>
           ELSE /\ notifications' = [notifications EXCEPT ![p.n] = TimedOut(p.row)]
                /\ admin_escalated' = notify_admin_no_donors(r)
                /\ UNCHANGED <<requests, donors, donation_history, donor_responses,
                               alerts, call, first_tasks, timers>>

(* Requests whose cascade is under way: candidate i is donor i's, notified *)
(* with its timeout check scheduled, or still pending.                     *)
InitRace ==
    /\ requests = [r \in 1..MaxRequests |->
                        [status |-> "pending", blood_type |-> "A+", units_needed |-> 1]]
    /\ \E k \in 1..MaxNotifications :
        \E rs \in [1..k -> 1..MaxRequests], sts \in [1..k -> {"notified", "pending"}] :
            /\ k <= NumDonors
            /\ notifications =
                [i \in 1..k |->
                    IF sts[i] = "notified"
                    THEN NewNotification(i, rs[i], "notified", TRUE, i, Some(5), Some(1), "now")
                    ELSE NewNotification(i, rs[i], "pending", FALSE, i, Some(5), Some(1), "null")]
            /\ timers = {i \in 1..k : sts[i] = "notified"}
    /\ donors = [d \in Donors |->
                    [points |-> 0, donation_count |-> 0,
                     last_donation_date |-> "null", is_available |-> TRUE]]
    /\ donation_history = [p \in Donors \X (1..MaxRequests) |-> 0]
    /\ donor_responses = {}
    /\ alerts = {}
    /\ first_tasks = {}
    /\ admin_escalated = {}
    /\ call = NoCall
    /\ procs = {}

NextRace ==
    \/ \E w \in Workers, u \in Donors, n \in NotificationIds : BeginAccept(w, u, n)
    \/ \E w \in Workers : FinishAccept(w)
    \/ \E w \in Workers, u \in Donors, n \in NotificationIds : BeginReject(w, u, n)
    \/ \E w \in Workers : FinishReject(w)
    \/ \E w \in Workers, n \in timers : BeginCheck(w, n)
    \/ \E w \in Workers : FinishCheck(w)

SpecRace == InitRace /\ [][NextRace]_vars

----------------------------------------------------------------------------
(* The cascade left to itself: queues of pending candidates whose          *)
(* notify_first_donor task the signal has queued, then only the two Celery *)
(* tasks and the donors' answers.  A Celery worker runs every task it is   *)
(* given, so both tasks are fair; a donor may never answer.                *)

CascadeRow(d, r, prio, dist) ==
    NewNotification(d, r, "pending", FALSE, prio, dist, dist, "null")

InitCascade ==
    /\ requests = [r \in 1..MaxRequests |->
                        [status |-> "pending", blood_type |-> "A+", units_needed |-> 1]]
    /\ \E k \in 1..MaxNotifications :
        \E rs \in [1..k -> 1..MaxRequests], dists \in [1..k -> {NULL, Some(5)}] :
            /\ k <= NumDonors
            /\ notifications = [i \in 1..k |-> CascadeRow(i, rs[i], i, dists[i])]
    /\ donors = [d \in Donors |->
                    [points |-> 0, donation_count |-> 0,
                     last_donation_date |-> "null", is_available |-> TRUE]]
    /\ donation_history = [p \in Donors \X (1..MaxRequests) |-> 0]
    /\ donor_responses = {}
    /\ alerts = {}
    /\ first_tasks = 1..MaxRequests
    /\ timers = {}
    /\ admin_escalated = {}
    /\ call = NoCall
    /\ procs = {}

RunNotifyFirstDonor == \E r \in first_tasks : NotifyFirstDonor(r)

RunCheckDonorResponse == \E n \in timers : CheckDonorResponse(n)

NextCascade ==
    \/ RunNotifyFirstDonor
    \/ RunCheckDonorResponse
    \/ \E u \in Donors, method \in Methods, n \in NotificationIds :
            AcceptBloodRequest(u, method, n)
    \/ \E u \in Donors, method \in Methods, n \in NotificationIds :
            RejectBloodRequest(u, method, n)

SpecCascade ==
    /\ InitCascade
    /\ [][NextCascade]_vars
    /\ WF_vars(RunNotifyFirstDonor)
    /\ WF_vars(RunCheckDonorResponse)

----------------------------------------------------------------------------
(* The handlers that pick the next candidate, on queues ranked in any      *)
(* order, with the rejections that make room for the admin's view and the  *)
(* rows send_blood_request_notification adds while the cascade runs.       *)

InitActivation ==
    /\ requests = [r \in 1..MaxRequests |->
                        [status |-> "pending", blood_type |-> "A+", units_needed |-> 1]]
    /\ \E k \in 1..MaxNotifications :
        \E rs \in [1..k -> 1..MaxRequests], prios \in [1..k -> 1..MaxNotifications],
           dists \in [1..k -> {NULL, Some(5)}] :
            /\ k <= NumDonors
            /\ notifications = [i \in 1..k |-> CascadeRow(i, rs[i], prios[i], dists[i])]
    /\ donors = [d \in Donors |->
                    [points |-> 0, donation_count |-> 0,
                     last_donation_date |-> "null", is_available |-> TRUE]]
    /\ donation_history = [p \in Donors \X (1..MaxRequests) |-> 0]
    /\ donor_responses = {}
    /\ alerts = {}
    /\ first_tasks = 1..MaxRequests
    /\ timers = {}
    /\ admin_escalated = {}
    /\ call = NoCall
    /\ procs = {}

NextActivation ==
    \/ \E r \in first_tasks : NotifyFirstDonor(r)
    \/ \E n \in timers : CheckDonorResponse(n)
    \/ \E r \in RequestIds : NotifyNextDonorView(r)
    \/ \E u \in Donors, n \in NotificationIds : RejectBloodRequest(u, "POST", n)
    \/ \E d \in Donors, r \in RequestIds : SendBloodRequestNotification(d, r)

SpecActivation == InitActivation /\ [][NextActivation]_vars

----------------------------------------------------------------------------
(* The pure functions of algorithms/, each evaluated on arguments drawn    *)
(* from a small set while the database stays empty.  call holds the        *)
(* arguments and, once the function has run, what it returned.             *)

stateVars == <<dbVars, alerts, first_tasks, timers, admin_escalated, procs>>

EmptyDatabase ==
    /\ requests = << >>
    /\ notifications = << >>
    /\ donors = [d \in Donors |->
                    [points |-> 0, donation_count |-> 0,
                     last_donation_date |-> "null", is_available |-> TRUE]]
    /\ donation_history = [p \in Donors \X (1..MaxRequests) |-> 0]
    /\ donor_responses = {}
    /\ alerts = {}
    /\ first_tasks = {}
    /\ timers = {}
    /\ admin_escalated = {}
    /\ procs = {}

(* algorithms/blood_compatibility.py.  "Rh-null" stands for any string     *)
(* that is not a key of COMPATIBILITY.                                     *)
TypeStrings == BloodTypes \cup {"Rh-null"}

(* algorithms/mcdm.py get_blood_compatibility_score: its own table of      *)
(* grades, compatibility_matrix.get(donor_type, {}).get(required_type, 0). *)

(* A table that grades A- given to A+ as an identical type *)
compatibility_matrix_generous ==
    "O-" :> ("O-" :> 10 @@ "O+" :> 8 @@ "A-" :> 8 @@ "A+" :> 8 @@ "B-" :> 8 @@ "B+" :> 8 @@ "AB-" :> 8 @@ "AB+" :> 8) @@
    "O+" :> ("O+" :> 10 @@ "A+" :> 8 @@ "B+" :> 8 @@ "AB+" :> 8) @@
    "A-" :> ("A-" :> 10 @@ "A+" :> 10 @@ "AB-" :> 8 @@ "AB+" :> 8) @@
    "A+" :> ("A+" :> 10 @@ "AB+" :> 8) @@
    "B-" :> ("B-" :> 10 @@ "B+" :> 8 @@ "AB-" :> 8 @@ "AB+" :> 8) @@
    "B+" :> ("B+" :> 10 @@ "AB+" :> 8) @@
    "AB-" :> ("AB-" :> 10 @@ "AB+" :> 8) @@
    "AB+" :> ("AB+" :> 10)

compatibility_matrix ==
    "O-" :> ("O-" :> 10 @@ "O+" :> 8 @@ "A-" :> 8 @@ "A+" :> 8 @@ "B-" :> 8 @@ "B+" :> 8 @@ "AB-" :> 8 @@ "AB+" :> 8) @@
    "O+" :> ("O+" :> 10 @@ "A+" :> 8 @@ "B+" :> 8 @@ "AB+" :> 8) @@
    "A-" :> ("A-" :> 10 @@ "A+" :> 8 @@ "AB-" :> 8 @@ "AB+" :> 8) @@
    "A+" :> ("A+" :> 10 @@ "AB+" :> 8) @@
    "B-" :> ("B-" :> 10 @@ "B+" :> 8 @@ "AB-" :> 8 @@ "AB+" :> 8) @@
    "B+" :> ("B+" :> 10 @@ "AB+" :> 8) @@
    "AB-" :> ("AB-" :> 10 @@ "AB+" :> 8) @@
    "AB+" :> ("AB+" :> 10)

get_blood_compatibility_score(donor_type, required_type) ==
    IF donor_type \notin DOMAIN compatibility_matrix THEN 0
    ELSE IF required_type \notin DOMAIN compatibility_matrix[donor_type] THEN 0
    ELSE compatibility_matrix[donor_type][required_type]

(* hospitals/serializers.py BloodRequestSerializer.get_compatible_blood_types: *)
(* its own chart, from the recipient's type to the donor types,            *)
(* compatibility.get(blood_type, []).                                      *)
compatibility ==
    "A+" :> {"A+", "A-", "O+", "O-"} @@
    "A-" :> {"A-", "O-"} @@
    "B+" :> {"B+", "B-", "O+", "O-"} @@
    "B-" :> {"B-", "O-"} @@
    "AB+" :> {"A+", "A-", "B+", "B-", "AB+", "AB-", "O+", "O-"} @@
    "AB-" :> {"A-", "B-", "AB-", "O-"} @@
    "O+" :> {"O+", "O-"} @@
    "O-" :> {"O-"}

get_compatible_blood_types(blood_type) ==
    IF blood_type \in DOMAIN compatibility THEN compatibility[blood_type] ELSE {}

InitCompat ==
    /\ EmptyDatabase
    /\ call \in {[fn |-> "args", donor_blood_type |-> d, recipient_blood_type |-> r] :
                    d \in TypeStrings, r \in TypeStrings}

CallIsCompatible ==
    /\ call.fn = "args"
    /\ call' = [call EXCEPT !.fn = "is_compatible"] @@
               [result |-> is_compatible(call.donor_blood_type,
                                         call.recipient_blood_type)]
    /\ UNCHANGED stateVars

CallGetCompatibleDonors ==
    /\ call.fn = "args"
    /\ call' = [call EXCEPT !.fn = "get_compatible_donors"] @@
               [result |-> get_compatible_donors(call.recipient_blood_type)]
    /\ UNCHANGED stateVars

CallGetCompatibleRecipients ==
    /\ call.fn = "args"
    /\ call' = [call EXCEPT !.fn = "get_compatible_recipients"] @@
               [result |-> get_compatible_recipients(call.donor_blood_type)]
    /\ UNCHANGED stateVars

CallGetBloodCompatibilityScore ==
    /\ call.fn = "args"
    /\ call' = [call EXCEPT !.fn = "get_blood_compatibility_score"] @@
               [result |-> get_blood_compatibility_score(call.donor_blood_type,
                                                         call.recipient_blood_type)]
    /\ UNCHANGED stateVars

CallGetCompatibleBloodTypes ==
    /\ call.fn = "args"
    /\ call' = [call EXCEPT !.fn = "get_compatible_blood_types"] @@
               [result |-> get_compatible_blood_types(call.recipient_blood_type)]
    /\ UNCHANGED stateVars

NextCompat ==
    \/ CallIsCompatible
    \/ CallGetCompatibleDonors
    \/ CallGetCompatibleRecipients
    \/ CallGetBloodCompatibilityScore
    \/ CallGetCompatibleBloodTypes

SpecCompat == InitCompat /\ [][NextCompat]_vars

----------------------------------------------------------------------------
(* algorithms/priority.py.  A request is what run_priority_algorithm reads *)
(* of it: urgency_level, the whole hours since created_at (every threshold *)
(* of calculate_time_score is a whole hour), units_needed and blood_type.  *)
(* Scores are kept in hundredths until round(priority_score, 1) turns them *)
(* into tenths.                                                            *)

MaxUnits == 6

UrgencyLevels == {"critical", "urgent", "normal", "routine"}
HoursWaiting == {0, 1, 2, 3, 5, 6, 11, 12, 23, 24}
UnitsNeeded == 0..MaxUnits

(* An urgency table in which 'critical' was left out *)
calculate_urgency_score_no_critical(urgency_level) ==
    CASE urgency_level = "urgent"   -> 70
      [] urgency_level = "normal"   -> 40
      [] OTHER                      -> 40

calculate_urgency_score(urgency_level) ==
    CASE urgency_level = "critical" -> 100
      [] urgency_level = "urgent"   -> 70
      [] urgency_level = "normal"   -> 40
      [] OTHER                      -> 40

calculate_time_score(hours_waiting) ==
    IF hours_waiting >= 24 THEN 100
    ELSE IF hours_waiting >= 12 THEN 80
    ELSE IF hours_waiting >= 6 THEN 60
    ELSE IF hours_waiting >= 3 THEN 40
    ELSE IF hours_waiting >= 1 THEN 20
    ELSE 0

(* A units score that treats 4 units like 5 *)
calculate_units_score_four_is_five(units_needed) ==
    IF units_needed >= 4 THEN 100
    ELSE IF units_needed >= 3 THEN 60
    ELSE IF units_needed >= 2 THEN 40
    ELSE 20

calculate_units_score(units_needed) ==
    IF units_needed >= 5 THEN 100
    ELSE IF units_needed >= 4 THEN 80
    ELSE IF units_needed >= 3 THEN 60
    ELSE IF units_needed >= 2 THEN 40
    ELSE 20

calculate_blood_rarity_score(blood_type) ==
    CASE blood_type = "AB-" -> 100
      [] blood_type = "B-"  -> 90
      [] blood_type = "AB+" -> 80
      [] blood_type = "A-"  -> 70
      [] blood_type = "O-"  -> 60
      [] blood_type = "B+"  -> 50
      [] blood_type = "A+"  -> 40
      [] blood_type = "O+"  -> 30
      [] OTHER              -> 50

(* round(x, 1) of a score given in hundredths, as tenths: to the nearest   *)
(* tenth, a half going to the even one.                                    *)
RoundToTenths(hundredths) ==
    LET q == hundredths \div 10
        rest == hundredths % 10
    IN IF rest < 5 THEN q
       ELSE IF rest > 5 THEN q + 1
       ELSE IF q % 2 = 0 THEN q ELSE q + 1

PriorityEntry(request) ==
    LET urgency_score == calculate_urgency_score(request.urgency_level)
        time_score == calculate_time_score(request.hours_waiting)
        units_score == calculate_units_score(request.units_needed)
        blood_rarity_score == calculate_blood_rarity_score(request.blood_type)
    IN [request |-> request,
        priority_score |-> RoundToTenths(urgency_score * 40 + time_score * 30
                                         + units_score * 20 + blood_rarity_score * 10),
        urgency_score |-> urgency_score,
        time_score |-> time_score,
        units_score |-> units_score,
        blood_rarity_score |-> blood_rarity_score]

(* list.sort(key=..., reverse=True): descending by key, entries with equal *)
(* keys staying in the order they came in.                                 *)
RECURSIVE SortedIndices(_, _)
SortedIndices(keys, left) ==
    IF left = {} THEN << >>
    ELSE LET best == CHOOSE i \in left :
                        \A j \in left :
                            keys[j] < keys[i] \/ (keys[j] = keys[i] /\ i <= j)
         IN <<best>> \o SortedIndices(keys, left \ {best})

SortDescending(list, keys) ==
    LET order == SortedIndices(keys, DOMAIN list)
    IN [k \in DOMAIN list |-> list[order[k]]]

run_priority_algorithm(blood_requests) ==
    LET ranked_list == [i \in DOMAIN blood_requests |-> PriorityEntry(blood_requests[i])]
    IN SortDescending(ranked_list,
                      [i \in DOMAIN ranked_list |-> ranked_list[i].priority_score])

PriorityRequests ==
    [urgency_level : UrgencyLevels, hours_waiting : HoursWaiting,
     units_needed : UnitsNeeded, blood_type : TypeStrings]

(* The request lists tried: every single request, and every request next   *)
(* to one that differs from it in units_needed or in urgency_level only.   *)
InitPriority ==
    /\ EmptyDatabase
    /\ \E a \in PriorityRequests :
        \/ call = [fn |-> "args", blood_requests |-> <<a>>]
        \/ \E n \in UnitsNeeded :
            call = [fn |-> "args",
                    blood_requests |-> <<a, [a EXCEPT !.units_needed = n]>>]
        \/ \E u \in UrgencyLevels :
            call = [fn |-> "args",
                    blood_requests |-> <<a, [a EXCEPT !.urgency_level = u]>>]

CallRunPriorityAlgorithm ==
    /\ call.fn = "args"
    /\ call' = [fn |-> "run_priority_algorithm",
                blood_requests |-> call.blood_requests,
                result |-> run_priority_algorithm(call.blood_requests)]
    /\ UNCHANGED stateVars

NextPriority == CallRunPriorityAlgorithm

SpecPriority == InitPriority /\ [][NextPriority]_vars

----------------------------------------------------------------------------
(* algorithms/mcdm.py.  numpy's floats are fixed-point numbers here: the   *)
(* normalized matrix is kept in thousandths, the weighted matrix and the   *)
(* separations in ten-thousandths, a score in thousandths.  np.sqrt is the *)
(* integer square root.                                                    *)

MaxRanked == 3

(* The largest low..high-1 whose square is at most n, by bisection *)
SqrtBetween[t \in Int \X Int \X Int] ==
    LET n == t[1]
        low == t[2]
        high == t[3]
        mid == (low + high) \div 2
    IN IF high - low <= 1 THEN low
       ELSE IF mid * mid <= n THEN SqrtBetween[<<n, mid, high>>]
       ELSE SqrtBetween[<<n, low, mid>>]

SQRT_LIMIT == 46340

Sqrt(n) == SqrtBetween[<<n, 0, IF n < SQRT_LIMIT THEN n + 1 ELSE SQRT_LIMIT>>]

RECURSIVE SumOver(_, _)
SumOver(f, S) ==
    IF S = {} THEN 0
    ELSE LET x == CHOOSE y \in S : TRUE IN f[x] + SumOver(f, S \ {x})

Largest(f) == f[CHOOSE i \in DOMAIN f : \A j \in DOMAIN f : f[j] <= f[i]]
Smallest(f) == f[CHOOSE i \in DOMAIN f : \A j \in DOMAIN f : f[i] <= f[j]]

DEFAULT_DISTANCE_KM == 50
RECENCY_CAP_DAYS == 90

(* The row of the criteria matrix for one donor: distance, compatibility,  *)
(* donation count, days since the last donation.                           *)
CriteriaRow(donor, distances, required_blood_type) ==
    <<IF donor.id \in DOMAIN distances THEN distances[donor.id]
      ELSE DEFAULT_DISTANCE_KM,
      get_blood_compatibility_score(donor.blood_type, required_blood_type),
      donor.donation_count,
      IF donor.days_since_last_donation # NULL
      THEN IF donor.days_since_last_donation[1] < RECENCY_CAP_DAYS
           THEN donor.days_since_last_donation[1] ELSE RECENCY_CAP_DAYS
      ELSE RECENCY_CAP_DAYS>>

Criteria == 1..4

(* A numpy array holds its numbers; a sequence written with |-> would be *)
(* worked out again at every use.                                          *)
Array(seq) == seq \o << >>

(* normalize_matrix: each column divided by its Euclidean norm, or zero    *)
(* when the norm is zero.  The norm is taken in hundredths.                *)
normalize_matrix(matrix) ==
    LET column_sum == Array([j \in Criteria |->
            Sqrt(SumOver(Array([i \in DOMAIN matrix |-> matrix[i][j] * matrix[i][j]]),
                         DOMAIN matrix) * 10000)])
    IN Array([i \in DOMAIN matrix |->
            Array([j \in Criteria |->
                IF column_sum[j] > 0
                THEN (matrix[i][j] * 100000) \div column_sum[j]
                ELSE 0])])

(* weights 0.3, 0.3, 0.2, 0.2 in tenths *)
McdmWeights == <<3, 3, 2, 2>>

Separation(row, target) ==
    Sqrt(SumOver(Array([j \in Criteria |-> (row[j] - target[j]) * (row[j] - target[j])]),
                 Criteria))

(* A score that is the ratio of the two separations *)
TopsisScoreOverPositive(d_positive, d_negative) ==
    IF d_positive > 0
    THEN (d_negative * 1000) \div d_positive
    ELSE 500

TopsisScore(d_positive, d_negative) ==
    IF d_positive + d_negative > 0
    THEN (d_negative * 1000) \div (d_positive + d_negative)
    ELSE 500

Weighted(normalized) ==
    Array([i \in DOMAIN normalized |->
            Array([j \in Criteria |-> normalized[i][j] * McdmWeights[j]])])

Column(weighted, j) == Array([i \in DOMAIN weighted |-> weighted[i][j]])

Ideal(weighted) ==
    Array([j \in Criteria |->
            IF j = 1 THEN Smallest(Column(weighted, j)) ELSE Largest(Column(weighted, j))])

NegativeIdeal(weighted) ==
    Array([j \in Criteria |->
            IF j = 1 THEN Largest(Column(weighted, j)) ELSE Smallest(Column(weighted, j))])

Scores(weighted, ideal, negative_ideal) ==
    Array([i \in DOMAIN weighted |->
            TopsisScore(Separation(weighted[i], ideal),
                        Separation(weighted[i], negative_ideal))])

Ranked(donor_list, scores) ==
    SortDescending(Array([i \in DOMAIN donor_list |->
                            [donor |-> donor_list[i], score |-> scores[i]]]),
                   scores)

rank_donors_mcdm(donor_list, distances, required_blood_type) ==
    IF Len(donor_list) = 0 THEN << >>
    ELSE IF Len(donor_list) = 1 THEN <<[donor |-> donor_list[1], score |-> 1000]>>
    ELSE
    LET matrix == Array([i \in DOMAIN donor_list |->
                        CriteriaRow(donor_list[i], distances, required_blood_type)])
    IN CHOOSE ranked \in
         {Ranked(donor_list, Scores(weighted, Ideal(weighted), NegativeIdeal(weighted))) :
            weighted \in {Weighted(normalize_matrix(matrix))}} : TRUE

(* The donors tried: ids follow the position in the list; a donor is far   *)
(* or near or has no computed distance, gives the required type, a         *)
(* compatible one or an incompatible one, has donated before or not.       *)
RankedDonorKinds ==
    [blood_type : {"A+", "O-", "B+"}, donation_count : {0, 3},
     days_since_last_donation : {NULL, Some(10)}]

RankedDistances == {[i \in S |-> 5 * i] : S \in SUBSET (1..MaxRanked)}

InitMcdm ==
    /\ EmptyDatabase
    /\ \E k \in 2..MaxRanked :
        \E kinds \in [1..k -> RankedDonorKinds], d \in RankedDistances :
            call = [fn |-> "args",
                    donors |-> [i \in 1..k |-> kinds[i] @@ [id |-> i]],
                    distances |-> d]

CallRankDonorsMcdm ==
    /\ call.fn = "args"
    /\ call' = [fn |-> "rank_donors_mcdm", donors |-> call.donors,
                distances |-> call.distances,
                result |-> rank_donors_mcdm(call.donors, call.distances, "A+")]
    /\ UNCHANGED stateVars

NextMcdm == CallRankDonorsMcdm

SpecMcdm == InitMcdm /\ [][NextMcdm]_vars

----------------------------------------------------------------------------
(* algorithms/eligibility.py and algorithms/haversine.py.  Latitudes and   *)
(* longitudes are hundredths of a degree, distances metres.                *)

MAX_DISTANCE_KM == 25
DONATION_COOLDOWN_DAYS == 90

(* Python's truth of a nullable number: None and 0.0 are both false *)
Truthy(x) == x # NULL /\ x[1] # 0

(* Metres along a meridian for a hundredth of a degree of latitude on a    *)
(* sphere of radius 6371 km, in hundredths of a metre.                     *)
METRES_PER_CENTIDEGREE_X100 == 111195

(* haversine_distance between two points of one meridian: dlon = 0, so     *)
(* a = sin(dlat/2)^2 and c = |dlat|, the distance r * |dlat|.  The model   *)
(* places every located donor and hospital on one meridian.                *)
haversine_distance(lat1, lon1, lat2, lon2) ==
    CASE lon1 = lon2 ->
        LET dlat == IF lat2 >= lat1 THEN lat2 - lat1 ELSE lat1 - lat2
        IN (dlat * METRES_PER_CENTIDEGREE_X100) \div 100

(* An eligibility that does not look at the declined responses *)
is_donor_eligible_forgetting_declines(donor, blood_request, declined, max_distance) ==
    /\ donor.is_available
    /\ donor.days_since_last_donation # NULL
        => donor.days_since_last_donation[1] >= DONATION_COOLDOWN_DAYS
    /\ is_compatible(donor.blood_type, blood_request.blood_type)
    /\ (/\ Truthy(donor.latitude) /\ Truthy(donor.longitude)
        /\ Truthy(blood_request.hospital.latitude)
        /\ Truthy(blood_request.hospital.longitude))
        => haversine_distance(donor.latitude[1], donor.longitude[1],
                              blood_request.hospital.latitude[1],
                              blood_request.hospital.longitude[1])
             <= max_distance * 1000

(* declined: a DonorResponse with status 'declined' exists for this donor  *)
(* and this request.  Each conjunct is one "return False" gate.            *)
is_donor_eligible(donor, blood_request, declined, max_distance) ==
    /\ donor.is_available
    /\ donor.days_since_last_donation # NULL
        => donor.days_since_last_donation[1] >= DONATION_COOLDOWN_DAYS
    /\ is_compatible(donor.blood_type, blood_request.blood_type)
    /\ ~declined
    /\ (/\ Truthy(donor.latitude) /\ Truthy(donor.longitude)
        /\ Truthy(blood_request.hospital.latitude)
        /\ Truthy(blood_request.hospital.longitude))
        => haversine_distance(donor.latitude[1], donor.longitude[1],
                              blood_request.hospital.latitude[1],
                              blood_request.hospital.longitude[1])
             <= max_distance * 1000

(* The donors, requests and radii tried.  Kathmandu lies near 27.70 N,     *)
(* 85.30 E; 27.90 N is 22.2 km north of it, 28.00 N 33.4 km; latitude 0 is *)
(* the equator.                                                            *)
Latitudes == {NULL, Some(0), Some(2770), Some(2790), Some(2800)}
Longitudes == {NULL, Some(8530)}
DaysSinceDonation == {NULL, Some(10), Some(89), Some(90)}

InitEligibility ==
    /\ EmptyDatabase
    /\ \E available \in BOOLEAN, days \in DaysSinceDonation,
          donor_type \in {"O-", "A+", "Rh-null"}, request_type \in {"A+", "O-"},
          lat \in Latitudes, lon \in Longitudes,
          hospital_lat \in {NULL, Some(0), Some(2770)}, hospital_lon \in Longitudes,
          declined \in BOOLEAN, max_distance \in {MAX_DISTANCE_KM, BROADCAST_RADIUS_KM} :
        call = [fn |-> "args",
                donor |-> [is_available |-> available,
                           days_since_last_donation |-> days,
                           blood_type |-> donor_type,
                           latitude |-> lat, longitude |-> lon],
                blood_request |-> [blood_type |-> request_type,
                                   hospital |-> [latitude |-> hospital_lat,
                                                 longitude |-> hospital_lon]],
                declined |-> declined,
                max_distance |-> max_distance]

CallIsDonorEligible ==
    /\ call.fn = "args"
    /\ call' = [call EXCEPT !.fn = "is_donor_eligible"] @@
               [result |-> is_donor_eligible(call.donor, call.blood_request,
                                             call.declined, call.max_distance)]
    /\ UNCHANGED stateVars

NextEligibility == CallIsDonorEligible

SpecEligibility == InitEligibility /\ [][NextEligibility]_vars

----------------------------------------------------------------------------
(* Properties *)

RequestOf(n) == notifications[n].blood_request

(* C1: single-flight.  In every reachable state every blood request has at *)
(* most one DonorNotification whose status is 'notified'.                  *)
C1_SingleFlight ==
    \A r \in RequestIds : Cardinality(WithStatus(r, "notified")) <= 1

(* C2: accept finality.  A POST to accept_blood_request on a 'notified'    *)
(* candidate leaves it 'accepted' and its request 'fulfilled', leaves no   *)
(* other candidate of that request 'pending' or 'notified' (each of them   *)
(* is 'cancelled') and changes no candidate of any other request.          *)
C2_AcceptStep(u, n) ==
    /\ notifications[n].donor = u
    /\ notifications[n].status = "notified"
    /\ AcceptBloodRequest(u, "POST", n)

C2_AcceptFinality ==
    [][\A u \in Donors, n \in NotificationIds :
        C2_AcceptStep(u, n) =>
            /\ notifications'[n].status = "accepted"
            /\ requests'[RequestOf(n)].status = "fulfilled"
            /\ \A m \in NotificationIds \ {n} :
                IF RequestOf(m) = RequestOf(n)
                THEN /\ notifications'[m].status \notin {"pending", "notified"}
                     /\ notifications[m].status \in {"pending", "notified"}
                            => notifications'[m].status = "cancelled"
                     /\ notifications[m].status \notin {"pending", "notified"}
                            => notifications'[m] = notifications[m]
                ELSE notifications'[m] = notifications[m]]_vars

(* A candidate accepted while a sibling was still waiting: the sibling is  *)
(* cancelled without the timed-out annotation.                             *)
C2_Witness ==
    \E n, m \in NotificationIds :
        /\ n # m
        /\ RequestOf(n) = RequestOf(m)
        /\ notifications[n].status = "accepted"
        /\ notifications[m].status = "cancelled"
        /\ notifications[m].response_notes = ""
        /\ requests[RequestOf(n)].status = "fulfilled"

(* C4: idempotent double response.  accept_blood_request and               *)
(* reject_blood_request on a candidate that is not 'notified' answer with  *)
(* one of the "no longer active" messages and change nothing.              *)
NotActiveMessages ==
    {"already_accepted", "already_rejected",
     "cancelled_or_fulfilled_by_another", "no_longer_active"}

C4_Answers ==
    \A n \in NotificationIds, method \in Methods :
        notifications[n].status # "notified" =>
            /\ ResponseOutcome(notifications[n].donor, method, n, "accepted")
                    \in NotActiveMessages
            /\ ResponseOutcome(notifications[n].donor, method, n, "declined")
                    \in NotActiveMessages
            /\ notifications[n].status = "accepted" =>
                    ResponseOutcome(notifications[n].donor, method, n, "declined")
                        = "already_accepted"

C4_IdempotentResponse ==
    /\ []C4_Answers
    /\ [][\A u \in Donors, method \in Methods, n \in NotificationIds :
            /\ notifications[n].status # "notified"
            /\ AcceptBloodRequest(u, method, n) \/ RejectBloodRequest(u, method, n)
            => UNCHANGED vars]_vars

(* A candidate that has been accepted, on which a second response can      *)
(* arrive.                                                                 *)
C4_Witness ==
    \E n \in NotificationIds :
        /\ notifications[n].status = "accepted"
        /\ ResponseOutcome(notifications[n].donor, "POST", n, "declined")
                = "already_accepted"

(* C5: a rejection advances the cascade.  When a 'notified' candidate is   *)
(* rejected and its request has a 'pending' candidate, the pending         *)
(* candidate with the lowest priority_order is 'notified' when the         *)
(* rejection has been handled.                                             *)
C5_RejectStep(u, n) ==
    /\ notifications[n].donor = u
    /\ notifications[n].status = "notified"
    /\ RejectBloodRequest(u, "POST", n)

AcceptedDonors(r) ==
    {notifications[n].donor :
        n \in {k \in OfRequest(r) : notifications[k].status \in {"accepted", "fulfilled"}}}

C3_OneDonationRecord ==
    \A r \in RequestIds :
        /\ Cardinality(AcceptedDonors(r)) <= 1
        /\ \A d \in Donors :
            donation_history[<<d, r>>] = IF d \in AcceptedDonors(r) THEN 1 ELSE 0

(* A candidate accepted and then fulfilled, with the one record of the     *)
(* acceptance, next to a sibling the acceptance cancelled.                 *)
C3_Witness ==
    \E n, m \in NotificationIds :
        /\ RequestOf(n) = RequestOf(m)
        /\ notifications[n].status = "fulfilled"
        /\ notifications[m].status = "cancelled"
        /\ notifications[m].response_notes = ""
        /\ donation_history[<<notifications[n].donor, RequestOf(n)>>] = 1

(* C6: timeout cascade.  When check_donor_response runs for a candidate    *)
(* still 'notified', the candidate becomes 'cancelled' with the timed-out  *)
(* annotation and, if the request has a 'pending' candidate, exactly the   *)
(* one with the lowest priority_order becomes 'notified' with notified_at  *)
(* set and a new timeout scheduled; no other candidate changes status.     *)
C6_TimeoutStep(n) ==
    /\ n \in timers
    /\ notifications[n].status = "notified"
    /\ CheckDonorResponse(n)

C6_TimeoutCascade ==
    [][\A n \in NotificationIds :
        C6_TimeoutStep(n) =>
            /\ notifications'[n].status = "cancelled"
            /\ notifications'[n].response_notes = "timed_out"
            /\ IF WithStatus(RequestOf(n), "pending") = {}
               THEN \A k \in NotificationIds \ {n} :
                        notifications'[k].status = notifications[k].status
               ELSE \E m \in FirstPending(RequestOf(n)) :
                        /\ notifications'[m].status = "notified"
                        /\ notifications'[m].notified_at = "now"
                        /\ m \in timers'
                        /\ \A k \in NotificationIds \ {n, m} :
                            notifications'[k].status = notifications[k].status]_vars

(* C7: timer no-op after a response.  check_donor_response for a candidate *)
(* whose status is not 'notified' changes no candidate, activates nobody,  *)
(* schedules no timer and leaves the requests as they are.                 *)
C7_TimerNoOp ==
    [][\A n \in NotificationIds :
        (n \in timers /\ notifications[n].status # "notified" /\ CheckDonorResponse(n))
            => /\ UNCHANGED <<dbVars, alerts, first_tasks, admin_escalated>>
               /\ timers' = timers \ {n}]_vars

(* A timeout check still scheduled for a candidate that has responded. *)
C7_Witness ==
    \E n \in timers :
        /\ notifications[n].status \in {"accepted", "rejected"}
        /\ notifications[n].responded

(* C8: exhaustion.  When a 'notified' candidate times out and its request  *)
(* has no 'pending' candidate, nobody is activated, the request keeps its  *)
(* status, notify_admin_no_donors is issued and no timer is scheduled.     *)
C8_Exhaustion ==
    [][\A n \in NotificationIds :
        (C6_TimeoutStep(n) /\ WithStatus(RequestOf(n), "pending") = {}) =>
            /\ \A k \in NotificationIds :
                notifications'[k].status = "notified"
                    => (k # n /\ notifications[k].status = "notified")
            /\ requests' = requests
            /\ RequestOf(n) \in admin_escalated'
            /\ timers' = timers \ {n}]_vars

(* An escalated request that is still 'pending', its last candidate timed  *)
(* out and nobody waiting.                                                 *)
C8_Witness ==
    \E r \in admin_escalated :
        /\ requests[r].status = "pending"
        /\ WithStatus(r, "pending") = {}
        /\ WithStatus(r, "notified") = {}
        /\ \E n \in WithStatus(r, "cancelled") :
                notifications[n].response_notes = "timed_out"

(* C9: cascade start on request creation.  Creating a blood request for    *)
(* which a donor is eligible materializes a queue of 'pending' candidates  *)
(* for it, and the notify_first_donor the post_save signal queued then     *)
(* leaves exactly one candidate of the request 'notified'.                 *)
Alerted(r) == {d \in Donors : <<d, r>> \in alerts}

RowsIn(rows, r, st) ==
    {n \in DOMAIN rows : rows[n].blood_request = r /\ rows[n].status = st}

C9_CascadeStart ==
    [][/\ \A bt \in FormBloodTypes :
            (CreateBloodRequest("POST", bt) /\ NearbyDonors(bt) # {}
                /\ Len(requests') > Len(requests))
                => RowsIn(notifications', Len(requests'), "pending") # {}
       /\ \A r \in RequestIds :
            (NotifyFirstDonor(r) /\ Alerted(r) # {} /\ requests[r].status = "pending")
                => Cardinality(RowsIn(notifications', r, "notified")) = 1]_vars

(* C10: donor counters follow donation records.  Each accept adds exactly  *)
(* 50 points, sets last_donation_date to today and donation_count to the   *)
(* number of the donor's DonationHistory records; a donor's points are     *)
(* always 50 times the number of their records, and fulfilling a request   *)
(* already accepted awards nothing.                                        *)
C10_PointsFollowRecords ==
    \A d \in Donors :
        /\ donors[d].points = POINTS_PER_DONATION * HistoryCount(d)
        /\ donors[d].donation_count = HistoryCount(d)
        /\ donors[d].last_donation_date = IF HistoryCount(d) > 0 THEN "today" ELSE "null"

C10_DonorCounters ==
    /\ []C10_PointsFollowRecords
    /\ [][\A u \in Donors, n \in NotificationIds :
            /\ C2_AcceptStep(u, n) =>
                /\ donors'[u].points = donors[u].points + 50
                /\ donors'[u].last_donation_date = "today"
                /\ donors'[u].donation_count = HistoryCount(u)'
                /\ HistoryCount(u)' = HistoryCount(u) + 1
                /\ \A d \in Donors \ {u} : donors'[d] = donors[d]
            /\ (/\ notifications[n].donor = u
                /\ notifications[n].status = "accepted"
                /\ donation_history[<<u, RequestOf(n)>>] > 0
                /\ FulfillBloodRequest(u, "POST", n))
                    => UNCHANGED <<donors, donation_history>>]_vars

(* A donor with one record and 50 points whose accepted request has then   *)
(* been fulfilled.                                                         *)
C10_Witness ==
    \E n \in NotificationIds :
        /\ notifications[n].status = "fulfilled"
        /\ donors[notifications[n].donor].points = 50
        /\ donors[notifications[n].donor].donation_count = 1
        /\ donors[notifications[n].donor].last_donation_date = "today"
        /\ HistoryCount(notifications[n].donor) = 1

(* C13: compatibility table and round trip.  is_compatible(d, r) is the   *)
(* standard donation matrix on the 8 ABO/Rh types: the donor's A, B and Rh *)
(* antigens are all among the recipient's.  get_compatible_donors(r) is    *)
(* exactly the set of d with is_compatible(d, r), and                      *)
(* get_compatible_recipients(d) exactly the set of r with                  *)
(* is_compatible(d, r); an unknown donor type is compatible with nothing.  *)
Antigens(t) ==
    CASE t = "O-"  -> {}
      [] t = "O+"  -> {"Rh"}
      [] t = "A-"  -> {"A"}
      [] t = "A+"  -> {"A", "Rh"}
      [] t = "B-"  -> {"B"}
      [] t = "B+"  -> {"B", "Rh"}
      [] t = "AB-" -> {"A", "B"}
      [] t = "AB+" -> {"A", "B", "Rh"}

StandardMatrix(d, r) ==
    /\ d \in BloodTypes
    /\ r \in BloodTypes
    /\ Antigens(d) \subseteq Antigens(r)

C13_CompatibilityTable ==
    /\ call.fn = "is_compatible" =>
          call.result = StandardMatrix(call.donor_blood_type, call.recipient_blood_type)
    /\ call.fn = "get_compatible_donors" =>
          call.result = {d \in TypeStrings : is_compatible(d, call.recipient_blood_type)}
    /\ call.fn = "get_compatible_recipients" =>
          call.result = {r \in TypeStrings : is_compatible(call.donor_blood_type, r)}
    /\ (call.fn = "is_compatible" /\ call.donor_blood_type \notin BloodTypes) =>
          call.result = FALSE
    /\ (call.fn = "get_compatible_recipients" /\ call.donor_blood_type \notin BloodTypes) =>
          call.result = {}

(* O+ asked about an Rh-negative recipient: the answer is no. *)
C13_Witness ==
    /\ call.fn = "is_compatible"
    /\ call.donor_blood_type = "O+"
    /\ call.recipient_blood_type = "A-"
    /\ call.result = FALSE

(* C15: request priority score.  run_priority_algorithm reports for every *)
(* request priority_score = 0.40 urgency + 0.30 wait + 0.20 units +        *)
(* 0.10 rarity, to one decimal, with urgency 100/70/40 (40 for any other   *)
(* tier), wait 100/80/60/40/20/0 at 24/12/6/3/1 hours, units               *)
(* 100/80/60/40/20 at 5/4/3/2 and rarity from the fixed table; the score   *)
(* lies between 19 and 100.  Scores are compared in tenths.                *)
StepScore(x, steps) ==
    LET reached == {i \in DOMAIN steps : x >= steps[i][1]}
    IN IF reached = {} THEN 0
       ELSE steps[CHOOSE i \in reached : \A j \in reached : i <= j][2]

ClaimedUrgency(u) ==
    IF u = "critical" THEN 100 ELSE IF u = "urgent" THEN 70 ELSE 40

ClaimedWait(h) ==
    StepScore(h, <<<<24, 100>>, <<12, 80>>, <<6, 60>>, <<3, 40>>, <<1, 20>>>>)

ClaimedUnits(n) ==
    IF n >= 2 THEN StepScore(n, <<<<5, 100>>, <<4, 80>>, <<3, 60>>, <<2, 40>>>>)
    ELSE 20

ClaimedRarity ==
    [t \in BloodTypes |->
        CASE t = "AB-" -> 100 [] t = "B-" -> 90 [] t = "AB+" -> 80 [] t = "A-" -> 70
          [] t = "O-" -> 60 [] t = "B+" -> 50 [] t = "A+" -> 40 [] t = "O+" -> 30]

C15_EntryAsClaimed(e) ==
    /\ e.urgency_score = ClaimedUrgency(e.request.urgency_level)
    /\ e.time_score = ClaimedWait(e.request.hours_waiting)
    /\ e.units_score = ClaimedUnits(e.request.units_needed)
    /\ e.request.blood_type \in BloodTypes =>
            e.blood_rarity_score = ClaimedRarity[e.request.blood_type]
    /\ e.priority_score * 10 =
            4 * e.urgency_score * 10 + 3 * e.time_score * 10
            + 2 * e.units_score * 10 + e.blood_rarity_score * 10
    /\ e.priority_score >= 190
    /\ e.priority_score <= 1000

C15_PriorityScore ==
    call.fn = "run_priority_algorithm" =>
        /\ Len(call.result) = Len(call.blood_requests)
        /\ \A i \in DOMAIN call.result : C15_EntryAsClaimed(call.result[i])

(* A critical AB- request for 5 units that has waited a day scores 100.0;  *)
(* the lowest score there is, 23.0, is a fresh normal O+ request of 1 unit. *)
C15_Witness ==
    /\ call.fn = "run_priority_algorithm"
    /\ Len(call.result) = 2
    /\ call.result[1].priority_score = 1000
    /\ call.result[1].request =
            [urgency_level |-> "critical", hours_waiting |-> 24,
             units_needed |-> 5, blood_type |-> "AB-"]
    /\ call.result[2].request.units_needed = 1
    /\ call.result[2].priority_score = 840

(* C16: priority monotonicity.  With urgency, waiting time and blood type  *)
(* fixed, more units_needed never lowers the score; a 'critical' request   *)
(* scores strictly higher than the same request with urgency 'normal' and  *)
(* is ranked before it, whichever came first in the list.                  *)
SameBut(a, b, field) ==
    \A f \in DOMAIN a \ {field} : a[f] = b[f]

ScoreOf(request) ==
    LET i == CHOOSE k \in DOMAIN call.result : call.result[k].request = request
    IN call.result[i].priority_score

RankOf(request) ==
    CHOOSE k \in DOMAIN call.result : call.result[k].request = request

C16_PriorityMonotone ==
    (call.fn = "run_priority_algorithm" /\ Len(call.blood_requests) = 2) =>
        \A i, j \in {1, 2} :
            LET a == call.blood_requests[i]
                b == call.blood_requests[j]
            IN /\ (SameBut(a, b, "units_needed") /\ a.units_needed <= b.units_needed)
                    => ScoreOf(a) <= ScoreOf(b)
               /\ (SameBut(a, b, "urgency_level") /\ a.urgency_level = "critical"
                        /\ b.urgency_level = "normal")
                    => /\ ScoreOf(a) > ScoreOf(b)
                       /\ RankOf(a) < RankOf(b)

(* A normal request listed before its critical twin comes out second, and  *)
(* a request for 5 units listed after the one for 2 comes out first.       *)
C16_Witness ==
    /\ call.fn = "run_priority_algorithm"
    /\ Len(call.blood_requests) = 2
    /\ \/ /\ call.blood_requests[1].urgency_level = "normal"
          /\ call.blood_requests[2].urgency_level = "critical"
          /\ call.result[1].request = call.blood_requests[2]
       \/ /\ call.blood_requests[1].units_needed = 2
          /\ call.blood_requests[2].units_needed = 5
          /\ call.result[1].request = call.blood_requests[2]
          /\ call.result[1].priority_score > call.result[2].priority_score

(* C14: donor ranking bounds and order.  For two or more donors            *)
(* rank_donors_mcdm returns every input donor exactly once, each with a    *)
(* score in [0, 1], in non-increasing order of score, donors of equal      *)
(* score in their input order; when all donors have the same criteria      *)
(* every score is 0.5.  Scores are in thousandths, and a donor's id is its *)
(* position in the input.                                                  *)
C14_RankingOrder ==
    call.fn = "rank_donors_mcdm" =>
        LET ranked == call.result
            row(i) == CriteriaRow(call.donors[i], call.distances, "A+")
        IN /\ Len(ranked) = Len(call.donors)
           /\ \A i \in DOMAIN call.donors :
                Cardinality({k \in DOMAIN ranked : ranked[k].donor = call.donors[i]}) = 1
           /\ \A k \in DOMAIN ranked : ranked[k].score >= 0 /\ ranked[k].score <= 1000
           /\ \A k \in DOMAIN ranked \ {1} :
                \/ ranked[k - 1].score > ranked[k].score
                \/ /\ ranked[k - 1].score = ranked[k].score
                   /\ ranked[k - 1].donor.id < ranked[k].donor.id
           /\ (\A i \in DOMAIN call.donors : row(i) = row(1))
                => \A k \in DOMAIN ranked : ranked[k].score = 500

(* Three donors of three different scores, ranked against their input     *)
(* order.                                                                  *)
C14_Witness ==
    /\ call.fn = "rank_donors_mcdm"
    /\ Len(call.result) = 3
    /\ call.result[1].donor.id = 3
    /\ call.result[3].donor.id = 1
    /\ call.result[1].score > call.result[2].score
    /\ call.result[2].score > call.result[3].score
    /\ call.result[3].score > 0


(* C11: eligibility predicate.  is_donor_eligible returns true if and only *)
(* if the donor is available, has no last donation or one at least 90 days *)
(* old, gives a type compatible with the request's, has no 'declined'      *)
(* response for the request, and the donor's or the hospital's location is *)
(* missing or the haversine distance is at most max_distance.              *)
LocationMissing(place) == place.latitude = NULL \/ place.longitude = NULL

C11_Claimed(donor, blood_request, declined, max_distance) ==
    /\ donor.is_available
    /\ \/ donor.days_since_last_donation = NULL
       \/ donor.days_since_last_donation[1] >= 90
    /\ is_compatible(donor.blood_type, blood_request.blood_type)
    /\ ~declined
    /\ \/ LocationMissing(donor)
       \/ LocationMissing(blood_request.hospital)
       \/ haversine_distance(donor.latitude[1], donor.longitude[1],
                             blood_request.hospital.latitude[1],
                             blood_request.hospital.longitude[1])
            <= max_distance * 1000

C11_EligibilityPredicate ==
    call.fn = "is_donor_eligible" =>
        call.result = C11_Claimed(call.donor, call.blood_request,
                                  call.declined, call.max_distance)


(* The rows is_donor_eligible reads for donor d and request r of the       *)
(* database.  The located donors are the odd ones, 10 km north of the      *)
(* hospital; a donation on record was made today.                          *)
HospitalRow == [latitude |-> Some(2770), longitude |-> Some(8530)]

DonorRow(d) ==
    [is_available |-> donors[d].is_available,
     days_since_last_donation |->
        IF donors[d].last_donation_date = "null" THEN NULL ELSE Some(0),
     blood_type |-> DonorBloodType(d),
     latitude |-> IF DonorDistanceKm(d) = NULL THEN NULL ELSE Some(2779),
     longitude |-> IF DonorDistanceKm(d) = NULL THEN NULL ELSE Some(8530)]

RequestRow(r) == [blood_type |-> requests[r].blood_type, hospital |-> HospitalRow]

HasDeclined(d, r) ==
    [donor |-> d, blood_request |-> r, status |-> "declined"] \in donor_responses

EligibleFor(d, r) ==
    is_donor_eligible(DonorRow(d), RequestRow(r), HasDeclined(d, r), MAX_DISTANCE_KM)

(* C12: no re-offer after decline.  Once a donor has rejected a request    *)
(* through reject_blood_request, is_donor_eligible(donor, that request) is *)
(* false in every later state: the rejection records a 'declined'          *)
(* response, a recorded response is never removed, and a donor with a      *)
(* 'declined' response for a request is not eligible for it.  The          *)
(* rejection leaves the donor's eligibility for every other request as it  *)
(* was.                                                                    *)
C12_NoReofferAfterDecline ==
    /\ [](\A d \in Donors, r \in RequestIds : HasDeclined(d, r) => ~EligibleFor(d, r))
    /\ [][/\ \A d \in Donors, r \in RequestIds : HasDeclined(d, r) => HasDeclined(d, r)'
          /\ \A u \in Donors, n \in NotificationIds :
                C5_RejectStep(u, n) =>
                    /\ HasDeclined(u, RequestOf(n))'
                    /\ \A r \in RequestIds \ {RequestOf(n)} :
                        EligibleFor(u, r)' = EligibleFor(u, r)]_vars

(* A donor declined one request, would be eligible for it but for that,    *)
(* and is eligible for another request.                                    *)
C12_Witness ==
    \E d \in Donors, r \in RequestIds, other \in RequestIds :
        /\ other # r
        /\ HasDeclined(d, r)
        /\ \E n \in OfRequest(r) :
            notifications[n].donor = d /\ notifications[n].status = "rejected"
        /\ is_donor_eligible(DonorRow(d), RequestRow(r), FALSE, MAX_DISTANCE_KM)
        /\ EligibleFor(d, other)


(* C17: input validation before matching.  A request posted with a missing *)
(* or invalid blood type, or with units_needed less than 1, is rejected by *)
(* create_blood_request: no BloodRequest row is created, and no            *)
(* notification, candidate or task for it.                                 *)
InvalidForm(bt, posted_units) ==
    \/ bt \notin BloodTypes
    \/ ParsedUnits(posted_units) # NULL /\ ParsedUnits(posted_units)[1] < 1

C17_InputValidation ==
    [][\A bt \in PostedBloodTypes, posted_units \in PostedUnits :
        (InvalidForm(bt, posted_units) /\ create_blood_request("POST", bt, posted_units))
            => UNCHANGED <<requests, notifications, alerts, first_tasks>>]_vars


(* The donor's acceptance of request r went through: its DonorResponse is  *)
(* on record.                                                              *)
HasAccepted(d, r) ==
    [donor |-> d, blood_request |-> r, status |-> "accepted"] \in donor_responses

(* C18: timeout versus response race.  However check_donor_response and an *)
(* accept or reject of the same candidate interleave, once they are done   *)
(* the request is not 'fulfilled' with the accepting candidate overwritten *)
(* to 'cancelled', and no candidate of a request whose acceptance went     *)
(* through is 'notified'.                                                  *)
C18_TimeoutResponseRace ==
    procs = {} =>
        \A n \in NotificationIds :
            LET r == RequestOf(n) IN
            requests[r].status = "fulfilled" /\ HasAccepted(notifications[n].donor, r)
                => /\ notifications[n].status # "cancelled"
                   /\ WithStatus(r, "notified") = {}

(* C19: racing responses on one candidate.  When two accept or reject      *)
(* submissions for one 'notified' candidate have both passed the status    *)
(* check before either writes, once they are done at most one              *)
(* DonationHistory record exists for the donor and the request, the donor  *)
(* has gained at most 50 points for it, and the candidate is not           *)
(* 'rejected' while its request is 'fulfilled' by its own acceptance.      *)
DonatedTo(d) == {r \in RequestIds : donation_history[<<d, r>>] > 0}

C19_RacingResponses ==
    procs = {} =>
        /\ \A d \in Donors, r \in RequestIds : donation_history[<<d, r>>] <= 1
        /\ \A d \in Donors :
            donors[d].points <= POINTS_PER_DONATION * Cardinality(DonatedTo(d))
        /\ \A n \in NotificationIds :
            ~ /\ notifications[n].status = "rejected"
              /\ requests[RequestOf(n)].status = "fulfilled"
              /\ HasAccepted(notifications[n].donor, RequestOf(n))


(* C20: a response window starts at every activation.  Every step that     *)
(* turns a candidate 'notified' (notify_first_donor, the timeout cascade,  *)
(* the admin's 'notify next donor' view, the admin's bulk action,          *)
(* notify_donor) schedules a timeout check for that candidate; the         *)
(* claim's "every notified candidate eventually leaves 'notified'" rests   *)
(* on that check.                                                          *)
BecomesNotified(n) ==
    /\ notifications'[n].status = "notified"
    /\ n \in NotificationIds => notifications[n].status # "notified"

C20_ResponseWindow ==
    [][\A n \in 1..Len(notifications') : BecomesNotified(n) => n \in timers']_vars


(* C21: cascade termination.  With the tasks scheduled fairly and no       *)
(* admin stepping in, a request whose cascade has started (a candidate of  *)
(* it is 'notified') eventually has a candidate 'accepted' or no candidate *)
(* left 'pending' or 'notified'.                                           *)
CascadeStarted(r) == r \in RequestIds /\ WithStatus(r, "notified") # {}

CascadeOver(r) ==
    \/ WithStatus(r, "accepted") # {}
    \/ WithStatus(r, "pending") \cup WithStatus(r, "notified") = {}

C21_CascadeTermination ==
    \A r \in 1..MaxRequests : CascadeStarted(r) ~> CascadeOver(r)


(* C22: no activation after acceptance.  Once a candidate of a request is  *)
(* 'accepted', no step of notify_first_donor, check_donor_response, the    *)
(* admin's 'notify next donor' view, the admin's bulk action or notify_donor *)
(* turns a candidate of that request 'notified'.                           *)
C22_NoActivationAfterAcceptance ==
    [][\A n \in 1..Len(notifications') :
        BecomesNotified(n) =>
            WithStatus(notifications'[n].blood_request, "accepted") = {}]_vars


(* A step of one of the three handlers that pick the next candidate *)
PickingStep ==
    \/ \E r \in first_tasks : NotifyFirstDonor(r)
    \/ \E n \in timers : CheckDonorResponse(n)
    \/ \E r \in RequestIds : NotifyNextDonorView(r)

Picked(n) ==
    /\ PickingStep
    /\ notifications[n].status = "pending"
    /\ notifications'[n].status = "notified"

C24_UniqueQueueRanks ==
    \A r \in RequestIds :
        \A n \in OfRequest(r) :
            /\ notifications[n].priority_order >= 1
            /\ \A m \in OfRequest(r) \ {n} :
                notifications[m].priority_order # notifications[n].priority_order


(* C25: request status is terminal once decided.  After a blood request    *)
(* has reached 'fulfilled' or 'cancelled', no step (a donor's accept or    *)
(* fulfil, the hospital's mark_fulfilled or cancel_request) changes its    *)
(* status.                                                                 *)
C25_RequestStatusTerminal ==
    [][\A r \in RequestIds :
        requests[r].status \in {"fulfilled", "cancelled"}
            => requests'[r].status = requests[r].status]_vars


(* is_donor_eligible(donor, request, 50) for a request of type bt that the *)
(* hospital is about to create: nobody has declined it yet.                *)
EligibleForNew(d, bt) ==
    is_donor_eligible(DonorRow(d), [blood_type |-> bt, hospital |-> HospitalRow],
                      FALSE, BROADCAST_RADIUS_KM)

AlertedFor(rows, r) == {d \in Donors : <<d, r>> \in rows}

(* C26: matching applies the eligibility predicate.  The donors            *)
(* create_blood_request notifies for the request it creates are donors     *)
(* for which is_donor_eligible(donor, request, 50) holds, and the          *)
(* best-ranked of them (all of them, there being no more than ten): no     *)
(* donor inside the 90-day cooldown is notified, and an eligible donor     *)
(* without a stored location is not left out.                              *)
C26_MatchingAppliesEligibility ==
    [][\A bt \in FormBloodTypes :
        (create_blood_request("POST", bt, Some("1")) /\ Len(requests') = Len(requests) + 1)
            => AlertedFor(alerts', Len(requests')) = {d \in Donors : EligibleForNew(d, bt)}]_vars


(* C27: one compatibility relation everywhere.  Over the 8 types,          *)
(* get_blood_compatibility_score(d, r) is 10 iff d = r, 8 iff d # r and    *)
(* is_compatible(d, r), 0 iff not is_compatible(d, r); and                 *)
(* get_compatible_blood_types(r) of the serializer is                      *)
(* get_compatible_donors(r) as a set.                                      *)
C27_OneCompatibilityRelation ==
    /\ (/\ call.fn = "get_blood_compatibility_score"
        /\ call.donor_blood_type \in BloodTypes
        /\ call.recipient_blood_type \in BloodTypes) =>
          LET d == call.donor_blood_type
              r == call.recipient_blood_type IN
          /\ call.result \in {0, 8, 10}
          /\ call.result = 10 <=> d = r
          /\ call.result = 8 <=> (d # r /\ is_compatible(d, r))
          /\ call.result = 0 <=> ~is_compatible(d, r)
    /\ (call.fn = "get_compatible_blood_types" /\ call.recipient_blood_type \in BloodTypes) =>
          call.result = get_compatible_donors(call.recipient_blood_type)

(* A- graded for an A+ recipient: compatible, not identical. *)
C27_Witness ==
    /\ call.fn = "get_blood_compatibility_score"
    /\ call.donor_blood_type = "A-"
    /\ call.recipient_blood_type = "A+"
    /\ call.result = 8


(* C28: at most one acceptance per request.  In every reachable state at   *)
(* most one candidate of a request has status 'accepted' or 'fulfilled'.   *)
C28_OneAcceptancePerRequest ==
    \A r \in RequestIds :
        Cardinality(WithStatus(r, "accepted") \cup WithStatus(r, "fulfilled")) <= 1


MayDonateNow(d) ==
    donors[d].is_available /\ donors[d].last_donation_date = "null"

(* C30: eligibility still holds at activation and acceptance.  A candidate *)
(* goes from 'pending' to 'notified', and a 'notified' candidate is        *)
(* accepted, only if its donor is at that moment available and outside the *)
(* 90-day cooldown.                                                        *)
C30_EligibleWhenActivatedOrAccepted ==
    [][\A n \in NotificationIds :
        (\/ notifications[n].status = "pending" /\ notifications'[n].status = "notified"
         \/ notifications[n].status = "notified" /\ notifications'[n].status = "accepted")
            => MayDonateNow(notifications[n].donor)]_vars

=============================================================================
